---- MODULE Spec2Model ----
(***************************************************************************)
(* The linear-system layer of the OpenModelica simulation runtime          *)
(* (SimulationRuntime/c/simulation/solver/linearSystem.c) as a state       *)
(* machine.  The state is the DATA structure the functions work on: the    *)
(* global solver method, the array of LINEAR_SYSTEM_DATA descriptors and   *)
(* the model parameters the static-data callback reads.  Every function of *)
(* the file is one action that executes the whole function body.           *)
(*                                                                         *)
(* Pointers are modelled by what the C abstract machine knows about them:  *)
(*   st = "unset"  the field was never assigned (indeterminate value),     *)
(*   st = "live"   the field holds the result of a malloc not yet freed,   *)
(*   st = "freed"  the field still holds an address that was freed,        *)
(* gen counts the allocations stored into the field (which allocation the  *)
(* address belongs to), len is the number of doubles asked for and data    *)
(* the contents.  Using an unset or freed pointer is undefined behaviour:  *)
(* the operation either crashes on the spot or goes on silently, and the   *)
(* model draws that outcome with the input ub of the action.               *)
(***************************************************************************)
EXTENDS Integers, Sequences, FiniteSets, TLC

(* Bounds of the model. *)
MaxSystems == 2      \* at most this many linear systems (nLinearSystems)
MaxSize == 2         \* at most this many unknowns per system
MaxParam == 1        \* model parameters take the values 0..MaxParam
MaxFreeCalls == 2    \* freeLinearSystems is called at most this often
MaxRefresh == 2      \* consecutive refreshes are counted up to this
MaxWrites == 2       \* the matrix callback is called at most this often
MaxValue == 2        \* matrix coefficients take the values 1..MaxValue

VARIABLES
  lsMethod,          \* data->simulationInfo.lsMethod
  nLinearSystems,    \* data->modelData.nLinearSystems
  linsys,            \* data->simulationInfo.linearSystemData[0..n-1]
  param,             \* the model parameters read by initializeStaticLSData
  phase,             \* "new", then "ready" or "failed": how initializeLinearSystems ended
  nFree,             \* number of calls of freeLinearSystems so far
  op,                \* the function called last
  err,               \* how it ended: "" (returned), a thrown message, "crash"
  log,               \* what it did, in order (allocations, releases, calls)
  retVal,            \* its return value
  nRefresh,          \* updateStaticDataOfLinearSystems calls in a row, up to MaxRefresh
  nWrites            \* number of calls through linsys[i].setAElement so far

vars == <<lsMethod, nLinearSystems, linsys, param, phase, nFree, nRefresh,
          op, err, log, retVal, nWrites>>

(* ---------------------------------------------------------------------- *)
(* Values                                                                 *)
(* ---------------------------------------------------------------------- *)

LS_METHODS == {"LS_NONE", "LS_LAPACK", "LS_LIS"}

Recognized(m) == m \in {"LS_LAPACK", "LS_LIS"}

Systems == 0 .. (nLinearSystems - 1)

(* One double: indeterminate after malloc, defined once written. *)
Indet == [def |-> FALSE, v |-> 0]
Val(n) == [def |-> TRUE, v |-> n]

(* A pointer field that was never assigned. *)
Unset == [st |-> "unset", gen |-> 0, len |-> 0, data |-> <<>>]

(* The solver-data handle, never assigned. *)
UnsetSolverData ==
  [st |-> "unset", gen |-> 0, kind |-> "none", inner |-> "unset",
   nrow |-> 0, ncol |-> 0, nnz |-> 0, entries |-> {}]

(* One entry of the log of an operation. *)
Ev(e, i, f, st, n) == [ev |-> e, i |-> i, f |-> f, st |-> st, n |-> n]

(* The running state of a function body: the descriptors, the log, how it *)
(* has ended so far ("" while it is still running), the ub input, whether *)
(* it has run into undefined behaviour, and the local retVal.             *)
Start(ls, ub) == [ls |-> ls, log |-> <<>>, err |-> "", ub |-> ub, undef |-> FALSE, ret |-> 0]

Note(acc, e) == [acc EXCEPT !.log = Append(@, e)]

Stop(acc, why) == [acc EXCEPT !.err = why]

(* Undefined behaviour at this point: a crash, or nothing visible. *)
Undefined(acc) ==
  LET a == [acc EXCEPT !.undef = TRUE]
  IN IF acc.ub THEN Stop(a, "crash") ELSE a

(* The outcomes to draw for a function body that runs to r when undefined *)
(* behaviour goes unnoticed: both, if it runs into undefined behaviour.   *)
UbChoices(r) == IF r.undef THEN BOOLEAN ELSE {FALSE}

(* ---------------------------------------------------------------------- *)
(* C statements                                                           *)
(* ---------------------------------------------------------------------- *)

(* linsys[i].f = malloc(n doubles);  the old value of                     *)
(* the field is overwritten, the new block holds indeterminate doubles.   *)
Malloc(acc, i, f, n) ==
  IF acc.err # "" THEN acc
  ELSE Note([acc EXCEPT !.ls[i][f] =
               [st |-> "live", gen |-> @.gen + 1, len |-> n,
                data |-> [j \in 1..n |-> Indet]]],
            Ev("malloc", i, f, acc.ls[i][f].st, n))

(* free(linsys[i].f);  the field keeps its (now dangling) value.  Freeing *)
(* a block twice, or a pointer that was never assigned, is undefined.     *)
Free(acc, i, f) ==
  IF acc.err # "" THEN acc
  ELSE LET st == acc.ls[i][f].st
           a == Note(acc, Ev("free", i, f, st, 0))
       IN IF st = "live" THEN [a EXCEPT !.ls[i][f].st = "freed"]
          ELSE Undefined(a)

(* throwStreamPrint(threadData, msg): leaves the function at once. *)
Throw(acc, i, msg) ==
  IF acc.err # "" THEN acc ELSE Stop(Note(acc, Ev("throw", i, msg, "", 0)), msg)

(* ---------------------------------------------------------------------- *)
(* Callbacks and solver back ends (outside linearSystem.c)                *)
(* ---------------------------------------------------------------------- *)

(* What the static-data callback writes for parameter value p. *)
NominalOf(p, n) == [j \in 1..n |-> Val(p + 1)]
MinOf(p, n) == [j \in 1..n |-> Val(0 - (p + j))]
MaxOf(p, n) == [j \in 1..n |-> Val(p + j)]

(* linsys[i].initializeStaticLSData(data, &linsys[i]): fills nominal, min *)
(* and max from the current parameters; writes nothing else.  Writing     *)
(* through a pointer that is not live is undefined.                       *)
InitializeStaticLSData(acc, i) ==
  IF acc.err # "" THEN acc
  ELSE LET d == acc.ls[i]
           ok == d.nominal.st = "live" /\ d.min.st = "live" /\ d.max.st = "live"
           a == Note(acc, Ev("static", i, "", IF ok THEN "live" ELSE "invalid", param))
       IN IF ok
          THEN [a EXCEPT !.ls[i].nominal.data = NominalOf(param, d.nominal.len),
                         !.ls[i].min.data = MinOf(param, d.min.len),
                         !.ls[i].max.data = MaxOf(param, d.max.len)]
          ELSE Undefined(a)

(* allocateLapackData(size, &linsys[i].solverData): a fresh DATA_LAPACK   *)
(* with its work arrays.                                                  *)
AllocateLapackData(acc, i, size) ==
  IF acc.err # "" THEN acc
  ELSE Note([acc EXCEPT !.ls[i].solverData =
               [st |-> "live", gen |-> @.gen + 1, kind |-> "lapack", inner |-> "live",
                nrow |-> size, ncol |-> size, nnz |-> 0, entries |-> {}]],
            Ev("malloc", i, "solverData", acc.ls[i].solverData.st, size))

(* allocateLisData(size, size, nnz, &linsys[i].solverData): a fresh       *)
(* DATA_LIS with its sparse matrix and vectors.                           *)
AllocateLisData(acc, i, nrow, ncol, nnz) ==
  IF acc.err # "" THEN acc
  ELSE Note([acc EXCEPT !.ls[i].solverData =
               [st |-> "live", gen |-> @.gen + 1, kind |-> "lis", inner |-> "live",
                nrow |-> nrow, ncol |-> ncol, nnz |-> nnz, entries |-> {}]],
            Ev("malloc", i, "solverData", acc.ls[i].solverData.st, nrow))

(* freeLapackData(&solverData) / freeLisData(&solverData): releases what  *)
(* the back end keeps inside its solver data, not the handle itself.  It  *)
(* reads through the handle, which must be live.                          *)
FreeSolverInner(acc, i, kind) ==
  IF acc.err # "" THEN acc
  ELSE LET sd == acc.ls[i].solverData
           ok == sd.st = "live" /\ sd.inner = "live" /\ sd.kind = kind
           a == Note(acc, Ev("release", i, kind,
                             IF sd.st # "live" THEN sd.st
                             ELSE IF sd.kind # kind THEN "wrongkind" ELSE sd.inner, 0))
       IN IF ok THEN [a EXCEPT !.ls[i].solverData.inner = "freed"] ELSE Undefined(a)

FreeLapackData(acc, i) == FreeSolverInner(acc, i, "lapack")

FreeLisData(acc, i) == FreeSolverInner(acc, i, "lis")

(* ---------------------------------------------------------------------- *)
(* initializeLinearSystems                                                *)
(* ---------------------------------------------------------------------- *)

(* The block that downgrades linsys->jacobianIndex, the index of the      *)
(* first descriptor, when the initializer of descriptor i fails.          *)
AnalyticalJacobian_FirstDescriptor(acc, i, fails) ==
  IF acc.err # "" \/ acc.ls[i].method # 1 THEN acc
  ELSE LET d == acc.ls[i]
           a1 == IF d.jacobianIndex # -1 /\ ~d.analyticalJacobianColumn
                 THEN Throw(acc, i, "jacobian function pointer is invalid")
                 ELSE acc
           a2 == IF a1.err # "" THEN a1
                 ELSE IF d.initialAnalyticalJacobian
                      THEN Note(a1, Ev("jacinit", i, "", "called", IF fails THEN 1 ELSE 0))
                      ELSE Stop(Note(a1, Ev("jacinit", i, "", "nullcall", 0)), "crash")
       IN IF a2.err # "" THEN a2
          ELSE IF fails THEN [a2 EXCEPT !.ls[0].jacobianIndex = -1] ELSE a2

(* Lines 66-76: the analytical-Jacobian block of descriptor i; fails is   *)
(* the (nonzero) result of linsys[i].initialAnalyticalJacobian(data).  A  *)
(* call through a null function pointer ends the process.                 *)
AnalyticalJacobian(acc, i, fails) ==
  IF acc.err # "" \/ acc.ls[i].method # 1 THEN acc
  ELSE LET d == acc.ls[i]
           a1 == IF d.jacobianIndex # -1 /\ ~d.analyticalJacobianColumn
                 THEN Throw(acc, i, "jacobian function pointer is invalid")
                 ELSE acc
           a2 == IF a1.err # "" THEN a1
                 ELSE IF d.initialAnalyticalJacobian
                      THEN Note(a1, Ev("jacinit", i, "", "called", IF fails THEN 1 ELSE 0))
                      ELSE Stop(Note(a1, Ev("jacinit", i, "", "nullcall", 0)), "crash")
       IN IF a2.err # "" THEN a2
          ELSE IF fails THEN [a2 EXCEPT !.ls[i].jacobianIndex = -1] ELSE a2

(* The switch whose LAPACK case binds the LIS writer. *)
AllocateSolverData_LisWriter(acc, i) ==
  IF acc.err # "" THEN acc
  ELSE LET size == acc.ls[i].size
           nnz == acc.ls[i].nnz
       IN CASE lsMethod = "LS_LAPACK" ->
                 LET a1 == Malloc(acc, i, "A", size * size)
                     a2 == [a1 EXCEPT !.ls[i].setAElement = "setAElementLis"]
                 IN AllocateLapackData(a2, i, size)
            [] lsMethod = "LS_LIS" ->
                 LET a1 == [acc EXCEPT !.ls[i].setAElement = "setAElementLis"]
                 IN AllocateLisData(a1, i, size, size, nnz)
            [] OTHER -> Throw(acc, i, "unrecognized linear solver")

(* The switch with A allocated for size instead of size*size doubles. *)
AllocateSolverData_ShortA(acc, i) ==
  IF acc.err # "" THEN acc
  ELSE LET size == acc.ls[i].size
           nnz == acc.ls[i].nnz
       IN CASE lsMethod = "LS_LAPACK" ->
                 LET a1 == Malloc(acc, i, "A", size)
                     a2 == [a1 EXCEPT !.ls[i].setAElement = "setAElementLAPACK"]
                 IN AllocateLapackData(a2, i, size)
            [] lsMethod = "LS_LIS" ->
                 LET a1 == [acc EXCEPT !.ls[i].setAElement = "setAElementLis"]
                 IN AllocateLisData(a1, i, size, size, nnz)
            [] OTHER -> Throw(acc, i, "unrecognized linear solver")

(* Lines 87-102: the switch on data->simulationInfo.lsMethod. *)
AllocateSolverData(acc, i) ==
  IF acc.err # "" THEN acc
  ELSE LET size == acc.ls[i].size
           nnz == acc.ls[i].nnz
       IN CASE lsMethod = "LS_LAPACK" ->
                 LET a1 == Malloc(acc, i, "A", size * size)
                     a2 == [a1 EXCEPT !.ls[i].setAElement = "setAElementLAPACK"]
                 IN AllocateLapackData(a2, i, size)
            [] lsMethod = "LS_LIS" ->
                 LET a1 == [acc EXCEPT !.ls[i].setAElement = "setAElementLis"]
                 IN AllocateLisData(a1, i, size, size, nnz)
            [] OTHER -> Throw(acc, i, "unrecognized linear solver")

(* The loop body with the solver method examined before anything is      *)
(* allocated.                                                             *)
InitializeBody_MethodFirst(acc, i, jf) ==
  LET size == acc.ls[i].size
      a0 == AllocateSolverData(acc, i)
      a1 == Malloc(a0, i, "x", size)
      a2 == Malloc(a1, i, "b", size)
      a3 == AnalyticalJacobian(a2, i, jf[i])
      a4 == Malloc(a3, i, "nominal", size)
      a5 == Malloc(a4, i, "min", size)
      a6 == Malloc(a5, i, "max", size)
  IN InitializeStaticLSData(a6, i)

(* The loop body that fills in the static data before nominal, min and    *)
(* max are allocated.                                                     *)
InitializeBody_StaticEarly(acc, i, jf) ==
  LET size == acc.ls[i].size
      a1 == Malloc(acc, i, "x", size)
      a2 == Malloc(a1, i, "b", size)
      a3 == AnalyticalJacobian(a2, i, jf[i])
      a4 == InitializeStaticLSData(a3, i)
      a5 == Malloc(a4, i, "nominal", size)
      a6 == Malloc(a5, i, "min", size)
      a7 == Malloc(a6, i, "max", size)
  IN AllocateSolverData(a7, i)

(* The loop body that starts every system off as solved. *)
InitializeBody_MarksSolved(acc, i, jf) ==
  LET size == acc.ls[i].size
      a1 == Malloc([acc EXCEPT !.ls[i].solved = 1], i, "x", size)
      a2 == Malloc(a1, i, "b", size)
      a3 == AnalyticalJacobian(a2, i, jf[i])
      a4 == Malloc(a3, i, "nominal", size)
      a5 == Malloc(a4, i, "min", size)
      a6 == Malloc(a5, i, "max", size)
      a7 == InitializeStaticLSData(a6, i)
  IN AllocateSolverData(a7, i)

(* Lines 58-102: the loop body for descriptor i. *)
InitializeBody(acc, i, jf) ==
  LET size == acc.ls[i].size
      a1 == Malloc(acc, i, "x", size)
      a2 == Malloc(a1, i, "b", size)
      a3 == AnalyticalJacobian(a2, i, jf[i])
      a4 == Malloc(a3, i, "nominal", size)
      a5 == Malloc(a4, i, "min", size)
      a6 == Malloc(a5, i, "max", size)
      a7 == InitializeStaticLSData(a6, i)
  IN AllocateSolverData(a7, i)

(* Lines 56-103: for(i=0; i<nLinearSystems; ++i), left early by a throw. *)
RECURSIVE InitializeLoop(_, _, _)
InitializeLoop(acc, i, jf) ==
  IF i >= nLinearSystems \/ acc.err # "" THEN acc
  ELSE InitializeLoop(InitializeBody(acc, i, jf), i + 1, jf)

(* The process is still running: no call has crashed it. *)
Alive == err # "crash"

(* The results the analytical-Jacobian initializers give when called; a   *)
(* system without one (method # 1) has none to give.                      *)
JacobianResults ==
  {jf \in [Systems -> BOOLEAN] : \A i \in Systems : linsys[i].method # 1 => ~jf[i]}

initializeLinearSystems ==
  /\ phase = "new" /\ Alive
  /\ \E jf \in JacobianResults :
     \E ub \in UbChoices(InitializeLoop(Start(linsys, FALSE), 0, jf)) :
       LET r == InitializeLoop(Start(linsys, ub), 0, jf)
       IN /\ linsys' = r.ls
          /\ log' = r.log
          /\ err' = r.err
          /\ phase' = IF r.err = "" THEN "ready" ELSE "failed"
  /\ op' = "initializeLinearSystems"
  /\ retVal' = 0
  /\ UNCHANGED <<lsMethod, nLinearSystems, param, nFree, nRefresh, nWrites>>

(* ---------------------------------------------------------------------- *)
(* updateStaticDataOfLinearSystems                                        *)
(* ---------------------------------------------------------------------- *)

(* The loop body that also marks the system as not solved. *)
UpdateBody_ResetSolved(acc, i) ==
  InitializeStaticLSData([acc EXCEPT !.ls[i].solved = 0], i)

(* The loop body that allocates nominal, min and max again, as the loop   *)
(* of initializeLinearSystems does.                                       *)
UpdateBody_Reallocate(acc, i) ==
  LET size == acc.ls[i].size
      a1 == Malloc(acc, i, "nominal", size)
      a2 == Malloc(a1, i, "min", size)
      a3 == Malloc(a2, i, "max", size)
  IN InitializeStaticLSData(a3, i)

(* Line 125: the loop body for descriptor i. *)
UpdateBody(acc, i) == InitializeStaticLSData(acc, i)

(* Lines 123-126. *)
RECURSIVE UpdateLoop(_, _)
UpdateLoop(acc, i) ==
  IF i >= nLinearSystems \/ acc.err # "" THEN acc
  ELSE UpdateLoop(UpdateBody(acc, i), i + 1)

updateStaticDataOfLinearSystems ==
  /\ phase = "ready" /\ nFree = 0 /\ Alive
  /\ \E ub \in UbChoices(UpdateLoop(Start(linsys, FALSE), 0)) :
       LET r == UpdateLoop(Start(linsys, ub), 0)
       IN /\ linsys' = r.ls
          /\ log' = r.log
          /\ err' = r.err
  /\ nRefresh' = IF nRefresh < MaxRefresh THEN nRefresh + 1 ELSE nRefresh
  /\ op' = "updateStaticDataOfLinearSystems"
  /\ retVal' = 0
  /\ UNCHANGED <<lsMethod, nLinearSystems, param, phase, nFree, nWrites>>

(* ---------------------------------------------------------------------- *)
(* freeLinearSystems                                                      *)
(* ---------------------------------------------------------------------- *)

(* Lines 154-167: the switch on data->simulationInfo.lsMethod. *)
FreeSolverStorage(acc, i) ==
  IF acc.err # "" THEN acc
  ELSE CASE lsMethod = "LS_LAPACK" -> Free(FreeLapackData(acc, i), i, "A")
         [] lsMethod = "LS_LIS" -> FreeLisData(acc, i)
         [] OTHER -> Throw(acc, i, "unrecognized linear solver")

(* The loop body without the release of min. *)
FreeBody_LeakMin(acc, i) ==
  LET a1 == Free(acc, i, "x")
      a2 == Free(a1, i, "b")
      a3 == Free(a2, i, "nominal")
      a5 == Free(a3, i, "max")
      a6 == FreeSolverStorage(a5, i)
  IN Free(a6, i, "solverData")

(* Lines 147-169: the loop body for descriptor i. *)
FreeBody(acc, i) ==
  LET a1 == Free(acc, i, "x")
      a2 == Free(a1, i, "b")
      a3 == Free(a2, i, "nominal")
      a4 == Free(a3, i, "min")
      a5 == Free(a4, i, "max")
      a6 == FreeSolverStorage(a5, i)
  IN Free(a6, i, "solverData")

(* Lines 145-170. *)
RECURSIVE FreeLoop(_, _)
FreeLoop(acc, i) ==
  IF i >= nLinearSystems \/ acc.err # "" THEN acc
  ELSE FreeLoop(FreeBody(acc, i), i + 1)

freeLinearSystems ==
  /\ phase \in {"ready", "failed"} /\ nFree < MaxFreeCalls /\ Alive
  /\ \E ub \in UbChoices(FreeLoop(Start(linsys, FALSE), 0)) :
       LET r == FreeLoop(Start(linsys, ub), 0)
       IN /\ linsys' = r.ls
          /\ log' = r.log
          /\ err' = r.err
  /\ nFree' = nFree + 1
  /\ nRefresh' = 0
  /\ op' = "freeLinearSystems"
  /\ retVal' = 0
  /\ UNCHANGED <<lsMethod, nLinearSystems, param, phase, nWrites>>

(* ---------------------------------------------------------------------- *)
(* solve_linear_system                                                    *)
(* ---------------------------------------------------------------------- *)

(* solveLapack(data, sysNumber) / solveLis(data, sysNumber): the back end *)
(* works on the descriptor's solver data and returns success (1) or       *)
(* failure (0); it does not throw on a numeric failure.                   *)
StrategySolve(acc, i, kind, success) ==
  IF acc.err # "" THEN acc
  ELSE LET sd == acc.ls[i].solverData
           ok == sd.st = "live" /\ sd.kind = kind
           a == Note(acc, Ev("solve", i, kind, IF ok THEN "live" ELSE "invalid", success))
       IN IF ok THEN [a EXCEPT !.ret = success] ELSE Undefined([a EXCEPT !.ret = success])

SolveLapack(acc, i, success) == StrategySolve(acc, i, "lapack", success)

SolveLis(acc, i, success) == StrategySolve(acc, i, "lis", success)

(* The body that stores the result through linsys->solved, the first      *)
(* descriptor's flag.                                                     *)
SolveBody_FirstDescriptor(acc, sysNumber, success) ==
  LET a1 == CASE lsMethod = "LS_LAPACK" -> SolveLapack(acc, sysNumber, success)
              [] lsMethod = "LS_LIS" -> SolveLis(acc, sysNumber, success)
              [] OTHER -> Throw(acc, sysNumber, "unrecognized linear solver")
  IN IF a1.err # "" THEN a1
     ELSE [a1 EXCEPT !.ls[0].solved = a1.ret, !.ret = 0]

(* The body that reports an unrecognized method as an unsolved system     *)
(* instead of throwing.                                                   *)
SolveBody_FailureAsData(acc, sysNumber, success) ==
  LET a1 == CASE lsMethod = "LS_LAPACK" -> SolveLapack(acc, sysNumber, success)
              [] lsMethod = "LS_LIS" -> SolveLis(acc, sysNumber, success)
              [] OTHER -> acc
  IN [a1 EXCEPT !.ls[sysNumber].solved = a1.ret, !.ret = 0]

(* Lines 188-201: the switch and the assignment to solved. *)
SolveBody(acc, sysNumber, success) ==
  LET a1 == CASE lsMethod = "LS_LAPACK" -> SolveLapack(acc, sysNumber, success)
              [] lsMethod = "LS_LIS" -> SolveLis(acc, sysNumber, success)
              [] OTHER -> Throw(acc, sysNumber, "unrecognized linear solver")
  IN IF a1.err # "" THEN a1
     ELSE [a1 EXCEPT !.ls[sysNumber].solved = a1.ret, !.ret = 0]

(* The call is defined: the back end it reaches has its solver data. *)
SolveDefined(i) ==
  /\ lsMethod = "LS_LAPACK" =>
       linsys[i].solverData.st = "live" /\ linsys[i].solverData.kind = "lapack"
  /\ lsMethod = "LS_LIS" =>
       linsys[i].solverData.st = "live" /\ linsys[i].solverData.kind = "lis"

solve_linear_system ==
  /\ phase \in {"ready", "failed"} /\ nFree = 0 /\ Alive
  /\ \E sysNumber \in Systems, success \in {0, 1} :
     \E ub \in UbChoices(SolveBody(Start(linsys, FALSE), sysNumber, success)) :
       /\ SolveDefined(sysNumber)
       /\ LET r == SolveBody(Start(linsys, ub), sysNumber, success)
          IN /\ linsys' = r.ls
             /\ log' = r.log
             /\ err' = r.err
  /\ nRefresh' = 0
  /\ op' = "solve_linear_system"
  /\ retVal' = 0
  /\ UNCHANGED <<lsMethod, nLinearSystems, param, phase, nFree, nWrites>>

(* ---------------------------------------------------------------------- *)
(* check_linear_solutions                                                 *)
(* ---------------------------------------------------------------------- *)

(* modelInfoXmlGetEquation(&modelDataXml, ix).id: the display id of the   *)
(* equation with index ix.                                                *)
ModelInfoXmlGetEquationId(ix) == 100 + ix

(* The loop body that sets retVal from the descriptor at hand alone. *)
CheckBody_LastWins(acc, i, printFailingSystems, active) ==
  IF acc.ls[i].solved # 0 THEN [acc EXCEPT !.ret = 0]
  ELSE LET a1 == [acc EXCEPT !.ret = 1]
       IN IF printFailingSystems # 0 /\ active
          THEN Note(a1, Ev("warning", i, "linear system fails", "",
                           ModelInfoXmlGetEquationId(acc.ls[0].equationIndex)))
          ELSE a1

(* The loop body that marks a failing system as reported once its        *)
(* warning is out.                                                        *)
CheckBody_Acknowledge(acc, i, printFailingSystems, active) ==
  IF acc.ls[i].solved # 0 THEN acc
  ELSE LET a1 == [acc EXCEPT !.ret = 1]
       IN IF printFailingSystems # 0 /\ active
          THEN Note([a1 EXCEPT !.ls[i].solved = 1],
                    Ev("warning", i, "linear system fails", "",
                       ModelInfoXmlGetEquationId(acc.ls[0].equationIndex)))
          ELSE a1

(* Lines 222-231: the loop body for descriptor i; active is               *)
(* ACTIVE_WARNING_STREAM(LOG_LS).  The equation index is read through     *)
(* linsys->equationIndex, the first descriptor's.                         *)
CheckBody(acc, i, printFailingSystems, active) ==
  IF acc.ls[i].solved # 0 THEN acc
  ELSE LET a1 == [acc EXCEPT !.ret = 1]
       IN IF printFailingSystems # 0 /\ active
          THEN Note(a1, Ev("warning", i, "linear system fails", "",
                           ModelInfoXmlGetEquationId(acc.ls[0].equationIndex)))
          ELSE a1

(* Lines 220-232. *)
RECURSIVE CheckLoop(_, _, _, _)
CheckLoop(acc, i, printFailingSystems, active) ==
  IF i >= nLinearSystems THEN acc
  ELSE CheckLoop(CheckBody(acc, i, printFailingSystems, active), i + 1,
                 printFailingSystems, active)

check_linear_solutions ==
  /\ phase \in {"ready", "failed"} /\ nFree = 0 /\ Alive
  /\ \E printFailingSystems \in {0, 1}, active \in BOOLEAN :
       LET r == CheckLoop(Start(linsys, FALSE), 0, printFailingSystems, active)
       IN /\ linsys' = r.ls
          /\ log' = Append(r.log, Ev("args", 0, "", IF active THEN "active" ELSE "inactive",
                                     printFailingSystems))
          /\ err' = r.err
          /\ retVal' = r.ret
  /\ nRefresh' = 0
  /\ op' = "check_linear_solutions"
  /\ UNCHANGED <<lsMethod, nLinearSystems, param, phase, nFree, nWrites>>

(* ---------------------------------------------------------------------- *)
(* setAElementLAPACK, setAElementLis                                      *)
(* ---------------------------------------------------------------------- *)

(* The writer that takes A as stored row by row. *)
setAElementLAPACK_RowMajor(acc, i, row, col, value) ==
  LET d == acc.ls[i]
      ix == row * d.size + col
      ok == d.A.st = "live" /\ ix >= 0 /\ ix < d.A.len
      a == Note(acc, Ev("write", i, "A", IF ok THEN "live" ELSE "invalid", ix))
  IN IF ok THEN [a EXCEPT !.ls[i].A.data[ix + 1] = Val(value)] ELSE Undefined(a)

(* Lines 237-241: linsys->A[row + col * linsys->size] = value.  The C     *)
(* index ix is position ix + 1 of the sequence.  A write outside a live   *)
(* block is undefined.                                                    *)
setAElementLAPACK(acc, i, row, col, value) ==
  LET d == acc.ls[i]
      ix == row + col * d.size
      ok == d.A.st = "live" /\ ix >= 0 /\ ix < d.A.len
      a == Note(acc, Ev("write", i, "A", IF ok THEN "live" ELSE "invalid", ix))
  IN IF ok THEN [a EXCEPT !.ls[i].A.data[ix + 1] = Val(value)] ELSE Undefined(a)

(* lis_matrix_set_value(LIS_INS_VALUE, row, col, value, A): the entry of  *)
(* the sparse matrix at (row, col) becomes value, replacing an older one. *)
LisMatrixSetValue(entries, row, col, value) ==
  {e \in entries : ~(e.row = row /\ e.col = col)}
    \cup {[row |-> row, col |-> col, value |-> value]}

(* Lines 243-248: the matrix is reached through the solver data, taken as *)
(* a DATA_LIS.                                                            *)
setAElementLis(acc, i, row, col, value) ==
  LET sd == acc.ls[i].solverData
      ok == sd.st = "live" /\ sd.inner = "live" /\ sd.kind = "lis"
      a == Note(acc, Ev("write", i, "lis", IF ok THEN "live" ELSE "invalid",
                        row + col * sd.nrow))
  IN IF ok
     THEN [a EXCEPT !.ls[i].solverData.entries = LisMatrixSetValue(@, row, col, value)]
     ELSE Undefined(a)

(* linsys[i].setAElement(row, col, value, nth, &linsys[i]): the call      *)
(* through the callback bound at initialization; through a callback that  *)
(* was never bound it ends the process.                                   *)
CallSetAElement(acc, i, row, col, value) ==
  CASE acc.ls[i].setAElement = "setAElementLAPACK" ->
         setAElementLAPACK(acc, i, row, col, value)
    [] acc.ls[i].setAElement = "setAElementLis" ->
         setAElementLis(acc, i, row, col, value)
    [] OTHER -> Stop(Note(acc, Ev("write", i, "", "nullcall", 0)), "crash")

(* The matrix callback of a system stores one coefficient. *)
setAElement ==
  /\ phase = "ready" /\ nFree = 0 /\ Alive
  /\ nWrites < MaxWrites
  /\ \E i \in Systems, value \in 1..MaxValue :
     \E row \in 0..(linsys[i].size - 1), col \in 0..(linsys[i].size - 1) :
     \E ub \in UbChoices(CallSetAElement(Start(linsys, FALSE), i, row, col, value)) :
       LET r == CallSetAElement(Start(linsys, ub), i, row, col, value)
       IN /\ linsys' = r.ls
          /\ log' = <<Ev("arg", i, "row", "", row), Ev("arg", i, "col", "", col),
                      Ev("arg", i, "value", "", value)>> \o r.log
          /\ err' = r.err
  /\ nWrites' = nWrites + 1
  /\ nRefresh' = 0
  /\ op' = "setAElement"
  /\ retVal' = 0
  /\ UNCHANGED <<lsMethod, nLinearSystems, param, phase, nFree>>

(* ---------------------------------------------------------------------- *)
(* The model around the library                                           *)
(* ---------------------------------------------------------------------- *)

(* The simulation changes a model parameter. *)
setParameters ==
  /\ phase = "ready" /\ nFree = 0 /\ Alive
  /\ \E p \in 0..MaxParam : p # param /\ param' = p
  /\ op' = "setParameters"
  /\ err' = ""
  /\ log' = <<>>
  /\ retVal' = 0
  /\ nRefresh' = 0
  /\ UNCHANGED <<lsMethod, nLinearSystems, linsys, phase, nFree, nWrites>>

(* data->simulationInfo.lsMethod is an ordinary field of the simulation   *)
(* data that linearSystem.c reads and does not own: the simulation        *)
(* assigns another value to it after the systems are initialized.         *)
setLsMethod ==
  /\ phase = "ready" /\ nFree = 0 /\ Alive
  /\ \E m \in LS_METHODS : m # lsMethod /\ lsMethod' = m
  /\ op' = "setLsMethod"
  /\ err' = ""
  /\ log' = <<>>
  /\ retVal' = 0
  /\ nRefresh' = 0
  /\ UNCHANGED <<nLinearSystems, linsys, param, phase, nFree, nWrites>>

(* The analytical-Jacobian settings a generated model gives a system:     *)
(* none; complete; the column function missing; the initializer missing.  *)
JacobianConfigs(i) ==
  { [method |-> 0, jacobianIndex |-> -1, analyticalJacobianColumn |-> FALSE,
     initialAnalyticalJacobian |-> FALSE],
    [method |-> 1, jacobianIndex |-> i, analyticalJacobianColumn |-> TRUE,
     initialAnalyticalJacobian |-> TRUE],
    [method |-> 1, jacobianIndex |-> i, analyticalJacobianColumn |-> FALSE,
     initialAnalyticalJacobian |-> TRUE],
    [method |-> 1, jacobianIndex |-> i, analyticalJacobianColumn |-> TRUE,
     initialAnalyticalJacobian |-> FALSE] }

(* Sizes of the systems of a model: system i has 1 + (i + k) % MaxSize    *)
(* unknowns, for a model-wide k.                                          *)
SizeOf(i, k) == 1 + ((i + k) % MaxSize)

(* A tridiagonal pattern. *)
NnzOf(size) == 3 * size - 2

(* The descriptor of system i as it is handed to initializeLinearSystems: *)
(* the model data are set, the buffers are not, solved is false.          *)
Descriptor(i, k, jc) ==
  [size |-> SizeOf(i, k), nnz |-> NnzOf(SizeOf(i, k)),
   method |-> jc.method, jacobianIndex |-> jc.jacobianIndex,
   analyticalJacobianColumn |-> jc.analyticalJacobianColumn,
   initialAnalyticalJacobian |-> jc.initialAnalyticalJacobian,
   equationIndex |-> 10 + 3 * i,
   x |-> Unset, b |-> Unset, nominal |-> Unset, min |-> Unset, max |-> Unset,
   A |-> Unset, solverData |-> UnsetSolverData, setAElement |-> "unset",
   solved |-> 0]

Init ==
  /\ lsMethod \in LS_METHODS
  /\ nLinearSystems \in 0..MaxSystems
  /\ param \in 0..MaxParam
  /\ \E k \in 0..(MaxSize - 1) :
       \E jcs \in [0..(nLinearSystems - 1) -> UNION {JacobianConfigs(i) : i \in 0..MaxSystems}] :
         /\ \A i \in 0..(nLinearSystems - 1) : jcs[i] \in JacobianConfigs(i)
         /\ linsys = [i \in 0..(nLinearSystems - 1) |-> Descriptor(i, k, jcs[i])]
  /\ phase = "new"
  /\ nFree = 0
  /\ nRefresh = 0
  /\ nWrites = 0
  /\ op = "none"
  /\ err = ""
  /\ log = <<>>
  /\ retVal = 0

Next ==
  \/ initializeLinearSystems
  \/ updateStaticDataOfLinearSystems
  \/ freeLinearSystems
  \/ solve_linear_system
  \/ check_linear_solutions
  \/ setParameters

Spec == Init /\ [][Next]_vars

(* The runs in which the matrix callback is called as well, for a model   *)
(* with one linear system, no analytical Jacobian and fixed parameters.   *)
InitCoef ==
  /\ Init
  /\ nLinearSystems = 1
  /\ param = 0
  /\ \A i \in Systems : linsys[i].method = 0

NextCoef ==
  \/ initializeLinearSystems
  \/ setAElement
  \/ updateStaticDataOfLinearSystems
  \/ solve_linear_system
  \/ check_linear_solutions
  \/ freeLinearSystems

SpecCoef == InitCoef /\ [][NextCoef]_vars

(* The runs in which the solver method is reassigned between the calls,   *)
(* for models without analytical Jacobians and with fixed parameters.     *)
InitCfg ==
  /\ Init
  /\ param = 0
  /\ \A i \in Systems : linsys[i].method = 0

NextCfg ==
  \/ initializeLinearSystems
  \/ setLsMethod
  \/ updateStaticDataOfLinearSystems
  \/ solve_linear_system
  \/ check_linear_solutions
  \/ freeLinearSystems

SpecCfg == InitCfg /\ [][NextCfg]_vars

(* ---------------------------------------------------------------------- *)
(* Properties                                                             *)
(* ---------------------------------------------------------------------- *)

Buffers == {"x", "b", "nominal", "min", "max"}

(* The positions of the log whose entry satisfies P. *)
Entries(P(_)) == {k \in 1..Len(log) : P(log[k])}

IsRelease(e) == e.ev \in {"free", "release"}

IsStatic(e) == e.ev = "static"

InitThrewUnrecognized ==
  op = "initializeLinearSystems" /\ err = "unrecognized linear solver"

(* C1, as claimed: when initializeLinearSystems raises the unrecognized-  *)
(* solver error, no descriptor has had x, b, nominal, min or max          *)
(* allocated and the static-data initializer has run on no descriptor.    *)
C1_ErrorBeforeAnyBuffer ==
  InitThrewUnrecognized =>
    /\ \A i \in Systems : \A f \in Buffers : linsys[i][f].st = "unset"
    /\ Entries(IsStatic) = {}

(* C1, amended: with an unrecognized method and at least one descriptor,  *)
(* initializeLinearSystems (unless the analytical-Jacobian block of the   *)
(* first descriptor ends the run before) raises the error while it is at  *)
(* the first descriptor: x, b, nominal, min and max of descriptor 0 are   *)
(* allocated with size elements and its static data initialized once; no  *)
(* descriptor has A, solver data or setAElement set, and no later         *)
(* descriptor has been touched.                                           *)
C1_ErrorAfterFirstBuffers ==
  ( /\ op = "initializeLinearSystems"
    /\ ~Recognized(lsMethod)
    /\ nLinearSystems > 0
    /\ err \notin {"jacobian function pointer is invalid", "crash"} ) =>
    /\ err = "unrecognized linear solver"
    /\ \A f \in Buffers :
         /\ linsys[0][f].st = "live"
         /\ linsys[0][f].gen = 1
         /\ linsys[0][f].len = linsys[0].size
    /\ Cardinality(Entries(IsStatic)) = 1
    /\ \A k \in Entries(IsStatic) : log[k].i = 0 /\ log[k].st = "live"
    /\ \A i \in Systems :
         /\ linsys[i].A = Unset
         /\ linsys[i].solverData = UnsetSolverData
         /\ linsys[i].setAElement = "unset"
    /\ \A i \in Systems \ {0} : \A f \in Buffers : linsys[i][f] = Unset

C1_Witness ==
  /\ InitThrewUnrecognized
  /\ nLinearSystems >= 2
  /\ linsys[0].x.st = "live" /\ linsys[0].max.st = "live"
  /\ linsys[1].x.st = "unset"

(* C2: in a second freeLinearSystems after a successful initialization,   *)
(* nothing that the first call released is released again.                *)
C2_SecondFreeReleasesNothingTwice ==
  (op = "freeLinearSystems" /\ nFree = 2 /\ phase = "ready") =>
    /\ err = ""
    /\ \A k \in Entries(IsRelease) : log[k].st # "freed"

(* C3: freeLinearSystems after an initialization that failed part-way     *)
(* returns normally, releases each allocated field once and calls no      *)
(* release on a field that was never allocated.                           *)
C3_FreeAfterFailedInitIsSafe ==
  (op = "freeLinearSystems" /\ nFree = 1 /\ phase = "failed") =>
    /\ err = ""
    /\ \A k \in Entries(IsRelease) : log[k].st = "live"
    /\ \A i \in Systems : \A f \in Buffers \cup {"A", "solverData"} :
         linsys[i][f].st # "live"

(* The number of free calls on field f of descriptor i in the log. *)
Frees(i, f) ==
  Cardinality({k \in 1..Len(log) : log[k].ev = "free" /\ log[k].i = i /\ log[k].f = f})

(* The number of back-end releases for descriptor i in the log. *)
Releases(i) ==
  Cardinality({k \in 1..Len(log) : log[k].ev = "release" /\ log[k].i = i})

(* C4: after a successful initialization with a recognized method, one    *)
(* freeLinearSystems returns normally and has released every resource     *)
(* initializeLinearSystems allocated exactly once (x, b, nominal, min,    *)
(* max, the solver data and what the back end keeps in it, and A under    *)
(* LAPACK); it has released nothing that was not allocated (A under LIS   *)
(* is never allocated and never freed), and nothing remains allocated.    *)
C4_FreeMatchesAllocation ==
  (op = "freeLinearSystems" /\ nFree = 1 /\ phase = "ready" /\ Recognized(lsMethod)) =>
    /\ err = ""
    /\ \A k \in Entries(IsRelease) : log[k].st = "live"
    /\ \A i \in Systems :
         /\ \A f \in Buffers \cup {"solverData"} :
              linsys[i][f].st = "freed" /\ linsys[i][f].gen = 1 /\ Frees(i, f) = 1
         /\ linsys[i].solverData.inner = "freed" /\ Releases(i) = 1
         /\ lsMethod = "LS_LAPACK" =>
              linsys[i].A.st = "freed" /\ linsys[i].A.gen = 1 /\ Frees(i, "A") = 1
         /\ lsMethod = "LS_LIS" => linsys[i].A = Unset /\ Frees(i, "A") = 0

C4_Witness ==
  /\ op = "freeLinearSystems" /\ nFree = 1 /\ phase = "ready"
  /\ lsMethod = "LS_LIS"
  /\ nLinearSystems >= 2
  /\ \A i \in Systems : linsys[i].solverData.st = "freed" /\ linsys[i].x.st = "freed"

(* The arguments of the last check_linear_solutions call. *)
CheckArgs == log[Len(log)]

IsWarning(e) == e.ev = "warning"

SomeUnsolved == \E i \in Systems : linsys[i].solved = 0

(* C5: check_linear_solutions returns 1 if some descriptor has solved = 0 *)
(* and 0 otherwise (0 with no descriptors), whatever the arguments.       *)
C5_ReturnsWhetherAnyUnsolved ==
  op = "check_linear_solutions" =>
    /\ err = ""
    /\ retVal = IF SomeUnsolved THEN 1 ELSE 0

C5_Witness ==
  /\ op = "check_linear_solutions"
  /\ nLinearSystems >= 2
  /\ linsys[0].solved = 0 /\ linsys[1].solved = 1
  /\ retVal = 1
  /\ CheckArgs.n = 0

(* C6: called with printFailingSystems set and the stream active,         *)
(* check_linear_solutions prints one warning for each descriptor with     *)
(* solved = 0, naming the equation of that descriptor, and none for a     *)
(* solved descriptor.                                                     *)
C6_WarningNamesOwnEquation ==
  (op = "check_linear_solutions" /\ CheckArgs.n = 1 /\ CheckArgs.st = "active") =>
    /\ \A i \in Systems :
         Cardinality({k \in Entries(IsWarning) : log[k].i = i})
           = IF linsys[i].solved = 0 THEN 1 ELSE 0
    /\ \A k \in Entries(IsWarning) :
         log[k].n = ModelInfoXmlGetEquationId(linsys[log[k].i].equationIndex)

(* The back end solve_linear_system reaches for a recognized method. *)
KindOf(m) == IF m = "LS_LAPACK" THEN "lapack" ELSE "lis"

(* C7: with a recognized method solve_linear_system returns normally; it  *)
(* calls the solve of the selected back end once, for sysNumber, stores   *)
(* its result in linsys[sysNumber].solved and leaves the solved flag of   *)
(* every other descriptor as it was.                                      *)
C7_SolveStoresResult ==
  [][ (op' = "solve_linear_system" /\ Recognized(lsMethod)) =>
        /\ err' = ""
        /\ Len(log') = 1
        /\ log'[1].ev = "solve" /\ log'[1].f = KindOf(lsMethod) /\ log'[1].st = "live"
        /\ log'[1].i \in Systems
        /\ linsys'[log'[1].i].solved = log'[1].n
        /\ \A j \in Systems \ {log'[1].i} : linsys'[j].solved = linsys[j].solved ]_vars

C7_Witness ==
  /\ op = "solve_linear_system" /\ err = ""
  /\ nLinearSystems >= 2
  /\ log[1].i = 1 /\ log[1].n = 0
  /\ linsys[1].solved = 0 /\ linsys[0].solved = 1

(* C8: solve_linear_system throws exactly when the method is              *)
(* unrecognized; then no back end is called and no descriptor changes.    *)
C8_SolveThrowsIffUnrecognized ==
  [][ op' = "solve_linear_system" =>
        /\ (err' # "") <=> ~Recognized(lsMethod)
        /\ ~Recognized(lsMethod) =>
             /\ err' = "unrecognized linear solver"
             /\ \A k \in 1..Len(log') : log'[k].ev # "solve"
             /\ linsys' = linsys ]_vars

C8_Witness ==
  /\ op = "solve_linear_system"
  /\ err = "unrecognized linear solver"
  /\ nLinearSystems >= 2
  /\ log = <<Ev("throw", 1, "unrecognized linear solver", "", 0)>>

KeptFields ==
  {"size", "nnz", "method", "jacobianIndex", "analyticalJacobianColumn",
   "initialAnalyticalJacobian", "equationIndex", "x", "b", "A", "solverData",
   "setAElement", "solved"}

C10_RefreshIdempotent ==
  [][ (op = "updateStaticDataOfLinearSystems" /\ op' = "updateStaticDataOfLinearSystems") =>
        /\ err' = ""
        /\ linsys' = linsys
        /\ log' = log ]_vars

C10_Witness ==
  /\ op = "updateStaticDataOfLinearSystems"
  /\ nRefresh >= 2
  /\ nLinearSystems >= 2
  /\ err = ""

(* C12: once initializeLinearSystems has returned with a recognized       *)
(* method, every descriptor (all have size > 0) has x, b, nominal, min    *)
(* and max allocated with exactly size elements, and its coefficient      *)
(* storage allocated: under LAPACK A with size*size elements and the      *)
(* LAPACK solver data, under LIS the LIS solver data for a size x size    *)
(* matrix with nnz nonzeros.                                              *)
C12_BuffersSizedAfterInit ==
  (op = "initializeLinearSystems" /\ err = "" /\ Recognized(lsMethod)) =>
    \A i \in Systems :
      /\ linsys[i].size > 0
      /\ \A f \in Buffers : linsys[i][f].st = "live" /\ linsys[i][f].len = linsys[i].size
      /\ linsys[i].solverData.st = "live" /\ linsys[i].solverData.inner = "live"
      /\ linsys[i].solverData.nrow = linsys[i].size
      /\ linsys[i].solverData.ncol = linsys[i].size
      /\ lsMethod = "LS_LAPACK" =>
           /\ linsys[i].A.st = "live"
           /\ linsys[i].A.len = linsys[i].size * linsys[i].size
           /\ linsys[i].solverData.kind = "lapack"
      /\ lsMethod = "LS_LIS" =>
           /\ linsys[i].solverData.kind = "lis"
           /\ linsys[i].solverData.nnz = linsys[i].nnz

C12_Witness ==
  /\ op = "initializeLinearSystems" /\ err = ""
  /\ lsMethod = "LS_LAPACK"
  /\ nLinearSystems >= 2
  /\ linsys[0].size # linsys[1].size
  /\ \E i \in Systems : linsys[i].size > 1 /\ linsys[i].A.len = linsys[i].size * linsys[i].size

(* The positions of the log where the analytical-Jacobian initializer of  *)
(* descriptor i was called and returned.                                  *)
JacobianCalls(l, i) ==
  {k \in 1..Len(l) : l[k].ev = "jacinit" /\ l[k].i = i /\ l[k].st = "called"}

(* C13: in initializeLinearSystems a descriptor with an analytical        *)
(* Jacobian (method = 1) whose initializer reports failure gets           *)
(* jacobianIndex = -1, no other descriptor's jacobianIndex changes for    *)
(* that, and the call goes on with the allocation of nominal for that     *)
(* descriptor instead of ending; when the initializer succeeds or the     *)
(* descriptor has no analytical Jacobian (method # 1) jacobianIndex is    *)
(* left as it was, and the initializer of such a descriptor is not called.*)
C13_JacobianFailureDowngradesOnly ==
  [][op' = "initializeLinearSystems" =>
       \A i \in Systems :
         LET calls == JacobianCalls(log', i)
         IN /\ Cardinality(calls) <= 1
            /\ linsys[i].method # 1 =>
                 \A k \in 1..Len(log') : ~(log'[k].ev = "jacinit" /\ log'[k].i = i)
            /\ IF \E k \in calls : log'[k].n = 1
               THEN linsys'[i].jacobianIndex = -1
               ELSE linsys'[i].jacobianIndex = linsys[i].jacobianIndex
            /\ \A k \in calls :
                 /\ k < Len(log')
                 /\ log'[k + 1] = Ev("malloc", i, "nominal", "unset", linsys[i].size)
            /\ (calls # {} /\ Recognized(lsMethod) /\ err' # "") =>
                 \E j \in Systems : j > i /\ log'[Len(log')].i = j /\ linsys[j].method = 1
  ]_vars

C13_Witness ==
  /\ op = "initializeLinearSystems" /\ err = ""
  /\ nLinearSystems >= 2
  /\ \E k \in JacobianCalls(log, 0) : log[k].n = 1
  /\ \E k \in JacobianCalls(log, 1) : log[k].n = 0
  /\ linsys[0].jacobianIndex = -1
  /\ linsys[1].jacobianIndex = 1

C15_CheckMutatesNothing ==
  [][op' = "check_linear_solutions" =>
       /\ linsys' = linsys
       /\ nLinearSystems' = nLinearSystems
       /\ lsMethod' = lsMethod
  ]_vars

C15_Witness ==
  /\ op = "check_linear_solutions" /\ err = ""
  /\ phase = "ready"
  /\ nLinearSystems >= 2
  /\ log[Len(log)] = Ev("args", 0, "", "active", 1)
  /\ \E k \in 1..Len(log) : log[k].ev = "warning" /\ log[k].i = 1
  /\ linsys[1].solved = 0
  /\ linsys[0].solved = 1

(* The arguments of the setAElement call a state is the outcome of. *)
WriteSystem == log[1].i
WriteRow == log[1].n
WriteCol == log[2].n
WriteValue == log[3].n

(* C11: a call of the dense writer for row, col in 0..size-1 stores value *)
(* at index row + col*size of A, which lies in 0..size*size-1, and        *)
(* changes nothing else, so that A[row + col*size] reads as the value     *)
(* written last; a following call for another (row, col) stores at        *)
(* another index and leaves the earlier value in place, a following call  *)
(* for the same (row, col) stores at the same index and replaces it.      *)
C11_DenseWriteIsColumnMajor ==
  [][(op' = "setAElement" /\ linsys[log'[1].i].setAElement = "setAElementLAPACK") =>
       LET i == log'[1].i
           row == log'[1].n
           col == log'[2].n
           value == log'[3].n
           size == linsys[i].size
           ix == row + col * size
       IN /\ row \in 0..(size - 1) /\ col \in 0..(size - 1)
          /\ ix >= 0 /\ ix < size * size
          /\ err' = ""
          /\ log'[4] = Ev("write", i, "A", "live", ix)
          /\ linsys'[i].A.data[ix + 1] = Val(value)
          /\ \A j \in 1..(size * size) :
               j # ix + 1 => linsys'[i].A.data[j] = linsys[i].A.data[j]
          /\ linsys' = [linsys EXCEPT ![i].A.data[ix + 1] = Val(value)]
          /\ (op = "setAElement" /\ WriteSystem = i) =>
               IF WriteRow = row /\ WriteCol = col
               THEN log[4].n = ix
               ELSE /\ log[4].n # ix
                    /\ linsys'[i].A.data[log[4].n + 1] = Val(WriteValue)
  ]_vars

C11_Witness ==
  /\ op = "setAElement" /\ err = ""
  /\ nWrites = 2
  /\ linsys[WriteSystem].setAElement = "setAElementLAPACK"
  /\ linsys[WriteSystem].size = 2
  /\ WriteRow = 1 /\ WriteCol = 0
  /\ linsys[WriteSystem].A.data[2] = Val(WriteValue)
  /\ linsys[WriteSystem].A.data[3] # Indet
  /\ linsys[WriteSystem].A.data[3] # Val(WriteValue)

(* C16: from the return of initializeLinearSystems with a recognized      *)
(* method on, through every later updateStaticDataOfLinearSystems,        *)
(* solve_linear_system and check_linear_solutions, every descriptor's     *)
(* setAElement is the writer of the storage it was given: it is           *)
(* setAElementLAPACK exactly if A was allocated (with LAPACK solver       *)
(* data), setAElementLis exactly if the solver data are LIS solver data   *)
(* (and A was not allocated), and all descriptors have the same one.      *)
C16_CallbackMatchesStorage ==
  (phase = "ready" /\ Recognized(lsMethod)) =>
    \A i \in Systems :
      /\ linsys[i].setAElement \in {"setAElementLAPACK", "setAElementLis"}
      /\ linsys[i].setAElement = "setAElementLAPACK" <=>
           (linsys[i].A.st # "unset" /\ linsys[i].solverData.kind = "lapack")
      /\ linsys[i].setAElement = "setAElementLis" <=>
           (linsys[i].A.st = "unset" /\ linsys[i].solverData.kind = "lis")
      /\ \A j \in Systems : linsys[j].setAElement = linsys[i].setAElement

C16_Witness ==
  /\ phase = "ready" /\ nFree = 0
  /\ op = "solve_linear_system" /\ err = ""
  /\ lsMethod = "LS_LAPACK"
  /\ nLinearSystems >= 2
  /\ \A i \in Systems :
       /\ linsys[i].setAElement = "setAElementLAPACK"
       /\ linsys[i].A.st = "live"
       /\ linsys[i].solverData.kind = "lapack"

(* C19: in a run with a recognized method, initializeLinearSystems calls  *)
(* the static-data callback of a descriptor only after it has allocated   *)
(* the descriptor's nominal, min and max, every later call of it and      *)
(* every call of a matrix writer finds the buffers it writes allocated,   *)
(* and no operation other than freeLinearSystems releases anything: until *)
(* freeLinearSystems is called all buffers of all descriptors stay        *)
(* allocated and no call runs into undefined behaviour.                   *)
C19_WritesTargetAllocatedBuffers ==
  Recognized(lsMethod) =>
    /\ \A k \in 1..Len(log) :
         /\ log[k].ev = "static" =>
              /\ log[k].st = "live"
              /\ op = "initializeLinearSystems" =>
                   \A f \in {"nominal", "min", "max"} :
                     \E m \in 1..(k - 1) :
                       log[m] = Ev("malloc", log[k].i, f, "unset", linsys[log[k].i].size)
         /\ log[k].ev = "write" => log[k].st = "live"
         /\ op # "freeLinearSystems" => log[k].ev \notin {"free", "release"}
    /\ nFree = 0 => err = ""
    /\ (phase = "ready" /\ nFree = 0) =>
         \A i \in Systems :
           /\ \A f \in Buffers : linsys[i][f].st = "live"
           /\ linsys[i].solverData.st = "live" /\ linsys[i].solverData.inner = "live"
           /\ lsMethod = "LS_LAPACK" => linsys[i].A.st = "live"

C19_Witness ==
  /\ op = "freeLinearSystems" /\ err = "" /\ nFree = 1
  /\ lsMethod = "LS_LAPACK"
  /\ nWrites = 2
  /\ \E i \in Systems :
       /\ linsys[i].solved = 1
       /\ linsys[i].A.st = "freed"
       /\ linsys[i].size = 2
       /\ linsys[i].A.data[4] # Indet
       /\ linsys[i].nominal.data[1] # Indet

(* C18: when initializeLinearSystems comes to a descriptor with an        *)
(* analytical Jacobian whose jacobianIndex is not -1 and whose            *)
(* initialAnalyticalJacobian, the function it goes on to call, is absent, *)
(* it ends with "jacobian function pointer is invalid" before the call:   *)
(* no call through an absent initialAnalyticalJacobian is ever made.      *)
C18_AbsentInitializerNeverCalled ==
  op = "initializeLinearSystems" =>
    \A k \in 1..Len(log) :
      log[k].ev = "jacinit" =>
        /\ log[k].st = "called"
        /\ linsys[log[k].i].initialAnalyticalJacobian

(* C14: the solver method is read when initializeLinearSystems runs and   *)
(* not again: whatever lsMethod is when they are called, a                *)
(* solve_linear_system on an initialized registry calls the solve of the  *)
(* back end whose solver data the descriptor was given at initialization, *)
(* and the first freeLinearSystems releases, for every descriptor, the    *)
(* storage of that back end.                                              *)
C14_StrategyFixedAtInit ==
  /\ (op = "solve_linear_system" /\ phase = "ready") =>
       /\ err = ""
       /\ log[1].ev = "solve"
       /\ log[1].f = linsys[log[1].i].solverData.kind
  /\ (op = "freeLinearSystems" /\ phase = "ready" /\ nFree = 1) =>
       /\ err = ""
       /\ \A i \in Systems :
            \E k \in 1..Len(log) :
              log[k] = Ev("release", i, linsys[i].solverData.kind, "live", 0)

====
